---- MODULE Spec2Model ----
(***************************************************************************)
(* A model of the evaluation engine of PyScheme (src/scheme.py): the       *)
(* evaluator scheme_eval, the frames, the procedure classes and their      *)
(* apply methods, the eleven special forms and the trampoline              *)
(* complete_apply.                                                         *)
(*                                                                         *)
(* The Python call stack is the variable stack: one record per active      *)
(* Python activation that still has work to do when its callee returns.    *)
(* The variable ctl is what the interpreter is doing right now: entering   *)
(* scheme_eval ("eval"), entering scheme_apply ("apply"), entering the     *)
(* eval method of a freshly constructed form node ("form"), returning a    *)
(* value ("ret"), propagating an exception ("raise"), or sitting in the    *)
(* read-eval-print loop ("idle").                                          *)
(*                                                                         *)
(* Scheme lists are proper lists (the reader is not part of the model):    *)
(* List(<<...>>), the empty one being nil.  scheme_apply and               *)
(* ThunkProcedure.apply only delegate, so they push no record.  CondForm's *)
(* in-place rewrite of the else clause is modelled on the node's own copy  *)
(* of the clauses.                                                         *)
(***************************************************************************)
EXTENDS Integers, Sequences, FiniteSets, TLC

VARIABLES frames, lambdas, stack, ctl, prog, ip, out, defines

vars == <<frames, lambdas, stack, ctl, prog, ip, out, defines>>

(***************************************************************************)
(* Bounds of the model.                                                    *)
(***************************************************************************)
MaxN == 3
MaxTests == 2
MaxClauses == 2
MaxFrames == 12
MaxLambdas == 8
MaxChain == 3
MaxDefines == 3

(***************************************************************************)
(* Expressions and values.                                                 *)
(***************************************************************************)
Num(n) == [t |-> "num", n |-> n]
Bool(b) == [t |-> "bool", b |-> b]
Sym(s) == [t |-> "sym", s |-> s]
List(xs) == [t |-> "list", xs |-> xs]
nil == List(<<>>)
None == [t |-> "none"]
LambdaRef(i) == [t |-> "lambda", id |-> i]
MuProcedure(formals, body) == [t |-> "mu", formals |-> formals, body |-> body]
MacroProcedure(params, body) == [t |-> "macro", params |-> params, body |-> body]
ThunkProcedure(procedure, args) == [t |-> "thunk", procedure |-> procedure, args |-> args]
BuiltinProcedure(name) == [t |-> "builtin", s |-> name]
FormClass(name) == [t |-> "form", s |-> name]

LambdaProcedure(formals, body, env) ==
    [formals |-> formals, body |-> body, env |-> env, recursive_call |-> FALSE]

special_forms ==
    {"define", "if", "cond", "and", "or", "let", "begin", "lambda", "mu",
     "quote", "define-macro"}

IsPair(x) == x.t = "list" /\ x.xs # <<>>
scheme_listp(x) == x.t = "list"
scheme_symbolp(x) == x.t = "sym"
scheme_procedurep(x) == x.t \in {"builtin", "lambda", "mu", "macro", "thunk"}
scheme_special_formp(x) == x.t = "form"

scheme_boolean_host(value) == value \notin {Bool(FALSE), Num(0), nil, None}

scheme_boolean(value) == ~(value.t = "bool" /\ value.b = FALSE)

(***************************************************************************)
(* Frames.                                                                 *)
(***************************************************************************)
Frame(parent) == [parent |-> parent, bindings |-> <<>>]

Binds(fs, i, symbol) == symbol \in DOMAIN fs[i].bindings

DefineOverAll(fs, i, symbol, value) ==
    [j \in DOMAIN fs |->
        IF j = i \/ fs[i].parent = j
        THEN [fs[j] EXCEPT !.bindings =
                [y \in DOMAIN fs[j].bindings \cup {symbol} |->
                    IF y = symbol THEN value ELSE fs[j].bindings[y]]]
        ELSE fs[j]]

Define(fs, i, symbol, value) ==
    [fs EXCEPT ![i].bindings =
        [y \in DOMAIN fs[i].bindings \cup {symbol} |->
            IF y = symbol THEN value ELSE fs[i].bindings[y]]]

RECURSIVE Lookup(_, _, _)
Lookup(fs, i, symbol) ==
    IF Binds(fs, i, symbol) THEN [ok |-> TRUE, val |-> fs[i].bindings[symbol]]
    ELSE IF fs[i].parent # 0 THEN Lookup(fs, fs[i].parent, symbol)
    ELSE [ok |-> FALSE, err |-> "Undefined symbol"]

RECURSIVE DefineAll(_, _, _, _)
DefineAll(fs, i, formals, args) ==
    IF formals = <<>> \/ args = <<>> THEN fs
    ELSE DefineAll(Define(fs, i, Head(formals).s, Head(args)), i, Tail(formals), Tail(args))

LogDefine(log, i, symbol, value) ==
    Append(log, [frame |-> i, symbol |-> symbol, value |-> value])

RECURSIVE LogDefineAll(_, _, _, _)
LogDefineAll(log, i, formals, args) ==
    IF formals = <<>> \/ args = <<>> THEN log
    ELSE LogDefineAll(LogDefine(log, i, Head(formals).s, Head(args)), i, Tail(formals), Tail(args))

(***************************************************************************)
(* Checking the structure of Scheme programs.                              *)
(***************************************************************************)
inf == 1000000

Ok == [ok |-> TRUE]
SchemeError(msg) == [ok |-> FALSE, cls |-> "SchemeError", err |-> msg]
HostError(cls) == [ok |-> FALSE, cls |-> cls, err |-> cls]

validate_form(expr, min, max) ==
    IF ~scheme_listp(expr) THEN SchemeError("badly formed expression")
    ELSE IF Len(expr.xs) < min THEN SchemeError("too few operands in form")
    ELSE IF Len(expr.xs) > max THEN SchemeError("too many operands in form")
    ELSE Ok

RECURSIVE validate_and_add(_, _)
validate_and_add(xs, symbols) ==
    IF xs = <<>> THEN Ok
    ELSE IF ~scheme_symbolp(Head(xs)) THEN SchemeError("non-symbol")
    ELSE IF Head(xs).s \in symbols THEN SchemeError("duplicate symbol")
    ELSE validate_and_add(Tail(xs), symbols \cup {Head(xs).s})

validate_formals(formals) ==
    IF scheme_listp(formals) THEN validate_and_add(formals.xs, {})
    ELSE validate_and_add(<<formals>>, {})

(* The first failing check of a sequence of checks, or Ok.                  *)
RECURSIVE FirstError(_)
FirstError(checks) ==
    IF checks = <<>> THEN Ok
    ELSE IF ~Head(checks).ok THEN Head(checks)
    ELSE FirstError(Tail(checks))

(***************************************************************************)
(* The constructors of the special forms: TAIL is the operand list.  Each  *)
(* yields [ok |-> TRUE, node |-> ...] or the exception it raises.          *)
(***************************************************************************)
Node(n) == [ok |-> TRUE, node |-> n]

DefineForm_init(tail) ==
    LET v == validate_form(tail, 2, inf) IN
    IF ~v.ok THEN v
    ELSE LET first == tail.xs[1]
             name == IF IsPair(first) THEN first.xs[1] ELSE first
             expr == IF IsPair(first)
                     THEN List(<<Sym("lambda"), List(Tail(first.xs))>> \o Tail(tail.xs))
                     ELSE tail.xs[2]
             f == validate_formals(List(<<name>>))
         IN IF ~f.ok THEN f
            ELSE Node([form |-> "define", name |-> name, expr |-> expr])

IfForm_init(tail) ==
    LET v == validate_form(tail, 2, 3) IN
    IF ~v.ok THEN v
    ELSE Node([form |-> "if", predicate |-> tail.xs[1], consequent |-> tail.xs[2],
               alternative |-> List(Tail(Tail(tail.xs)))])

CondForm_init_keep_else(tail) ==
    LET v == validate_form(tail, 1, inf) IN
    IF ~v.ok THEN v
    ELSE IF ~IsPair(tail.xs[Len(tail.xs)]) THEN HostError("AttributeError")
    ELSE Node([form |-> "cond", clauses |-> tail])

CondForm_init(tail) ==
    LET v == validate_form(tail, 1, inf) IN
    IF ~v.ok THEN v
    ELSE LET n == Len(tail.xs)
             last_clause == tail.xs[n]
         IN IF ~IsPair(last_clause) THEN HostError("AttributeError")
            ELSE IF last_clause.xs[1] = Sym("else")
            THEN Node([form |-> "cond",
                       clauses |-> List([tail.xs EXCEPT ![n] =
                           List(<<Bool(TRUE)>> \o Tail(last_clause.xs))])])
            ELSE Node([form |-> "cond", clauses |-> tail])

AndForm_init(tail) == Node([form |-> "and", tests |-> tail])

OrForm_init(tail) == Node([form |-> "or", tests |-> tail])

LetForm_init(tail) ==
    LET v == validate_form(tail, 2, inf) IN
    IF ~v.ok THEN v
    ELSE Node([form |-> "let", binding |-> tail.xs[1], body |-> List(Tail(tail.xs))])

BeginForm_init(tail) ==
    LET v == validate_form(tail, 1, inf) IN
    IF ~v.ok THEN v
    ELSE Node([form |-> "begin", exprs |-> tail])

LambdaForm_init(tail) ==
    LET v == validate_form(tail, 2, inf) IN
    IF ~v.ok THEN v
    ELSE LET f == validate_formals(tail.xs[1]) IN
         IF ~f.ok THEN f
         ELSE Node([form |-> "lambda", formals |-> tail.xs[1], body |-> List(Tail(tail.xs))])

MuForm_init(tail) ==
    LET v == validate_form(tail, 2, inf) IN
    IF ~v.ok THEN v
    ELSE LET f == validate_formals(tail.xs[1]) IN
         IF ~f.ok THEN f
         ELSE Node([form |-> "mu", formals |-> tail.xs[1], body |-> List(Tail(tail.xs))])

QuoteForm_init(tail) ==
    LET v == validate_form(tail, 1, 1) IN
    IF ~v.ok THEN v
    ELSE Node([form |-> "quote", expr |-> tail.xs[1]])

DefineMacroForm_init(tail) ==
    LET v == validate_form(tail, 2, inf) IN
    IF ~v.ok THEN v
    ELSE LET w == validate_form(tail.xs[1], 1, inf) IN
         IF ~w.ok THEN w
         ELSE LET name == tail.xs[1].xs[1]
                  params == List(Tail(tail.xs[1].xs))
                  f == FirstError(<<validate_formals(List(<<name>>)), validate_formals(params)>>)
              IN IF ~f.ok THEN f
                 ELSE Node([form |-> "define-macro", name |-> name, params |-> params,
                            body |-> List(Tail(tail.xs))])

Construct(class, tail) ==
    CASE class = "define" -> DefineForm_init(tail)
      [] class = "if" -> IfForm_init(tail)
      [] class = "cond" -> CondForm_init(tail)
      [] class = "and" -> AndForm_init(tail)
      [] class = "or" -> OrForm_init(tail)
      [] class = "let" -> LetForm_init(tail)
      [] class = "begin" -> BeginForm_init(tail)
      [] class = "lambda" -> LambdaForm_init(tail)
      [] class = "mu" -> MuForm_init(tail)
      [] class = "quote" -> QuoteForm_init(tail)
      [] class = "define-macro" -> DefineMacroForm_init(tail)

(***************************************************************************)
(* The interpreter's control and its stack of activations.                 *)
(***************************************************************************)
Idle == [mode |-> "idle"]
Eval(expr, env, is_tail) == [mode |-> "eval", expr |-> expr, env |-> env, is_tail |-> is_tail]
Apply(procedure, args, env) == [mode |-> "apply", procedure |-> procedure, args |-> args, env |-> env]
EvalNode(node, env, is_tail) == [mode |-> "form", node |-> node, env |-> env, is_tail |-> is_tail]
Ret(val) == [mode |-> "ret", val |-> val]
Raise(e, at) == [mode |-> "raise", cls |-> e.cls, err |-> e.err, at |-> at]

Top == stack[Len(stack)]
Pop == SubSeq(stack, 1, Len(stack) - 1)
Push(rec) == Append(stack, rec)
SetTop(rec) == [stack EXCEPT ![Len(stack)] = rec]

Returning(k) == ctl.mode = "ret" /\ stack # <<>> /\ Top.k = k

(***************************************************************************)
(* The built-in procedures the programs of the model use (the library      *)
(* scheme_builtins is outside the evaluator): numeric = and -, and list.   *)
(***************************************************************************)
AllNums(args) == \A i \in DOMAIN args : args[i].t = "num"

BuiltinFn(name, args) ==
    IF name = "list" THEN [ok |-> TRUE, val |-> List(args)]
    ELSE IF ~AllNums(args) THEN SchemeError("operand is not a number")
    ELSE IF name = "=" /\ Len(args) = 2 THEN [ok |-> TRUE, val |-> Bool(args[1].n = args[2].n)]
    ELSE IF name = "-" /\ Len(args) = 2 THEN [ok |-> TRUE, val |-> Num(args[1].n - args[2].n)]
    ELSE IF name = "-" /\ Len(args) = 1 THEN [ok |-> TRUE, val |-> Num(0 - args[1].n)]
    ELSE SchemeError("TypeError")

create_global_frame ==
    Define(Define(Define(Define(<<Frame(0)>>, 1, "undefined", None),
                         1, "=", BuiltinProcedure("=")),
                  1, "-", BuiltinProcedure("-")),
           1, "list", BuiltinProcedure("list"))

(***************************************************************************)
(* The read-eval-print loop: prog is the input, ip the next expression,    *)
(* out what was printed.                                                   *)
(***************************************************************************)
repl_read ==
    /\ ctl.mode = "idle"
    /\ ip <= Len(prog)
    /\ ctl' = Eval(prog[ip], 1, FALSE)
    /\ ip' = ip + 1
    /\ UNCHANGED <<frames, lambdas, stack, prog, out, defines>>

repl_print ==
    /\ ctl.mode = "ret"
    /\ stack = <<>>
    /\ out' = Append(out, ctl.val)
    /\ ctl' = Idle
    /\ UNCHANGED <<frames, lambdas, stack, prog, ip, defines>>

repl_except ==
    /\ ctl.mode = "raise"
    /\ ctl.cls = "SchemeError"
    /\ stack' = <<>>
    /\ out' = Append(out, [t |-> "error", s |-> ctl.err])
    /\ ctl' = Idle
    /\ UNCHANGED <<frames, lambdas, prog, ip, defines>>

repl_crash ==
    /\ ctl.mode = "raise"
    /\ ctl.cls # "SchemeError"
    /\ stack' = <<>>
    /\ out' = Append(out, [t |-> "crash", s |-> ctl.err])
    /\ ctl' = Idle
    /\ ip' = Len(prog) + 1
    /\ UNCHANGED <<frames, lambdas, prog, defines>>

(***************************************************************************)
(* scheme_eval.                                                            *)
(***************************************************************************)
scheme_eval_pair ==
    /\ ctl.mode = "eval"
    /\ IsPair(ctl.expr)
    /\ stack' = Push([k |-> "scheme_eval", pc |-> "operator", expr |-> ctl.expr,
                      env |-> ctl.env, is_tail |-> ctl.is_tail, operator |-> None,
                      args |-> <<>>, rest |-> Tail(ctl.expr.xs)])
    /\ ctl' = Eval(ctl.expr.xs[1], ctl.env, FALSE)
    /\ UNCHANGED <<frames, lambdas, prog, ip, out, defines>>

scheme_eval_symbol ==
    /\ ctl.mode = "eval"
    /\ ctl.expr.t = "sym"
    /\ ctl' = IF ctl.expr.s \in special_forms THEN Ret(FormClass(ctl.expr.s))
              ELSE LET r == Lookup(frames, ctl.env, ctl.expr.s) IN
                   IF r.ok THEN Ret(r.val) ELSE Raise(SchemeError(r.err), "lookup")
    /\ UNCHANGED <<frames, lambdas, stack, prog, ip, out, defines>>

scheme_eval_thunk ==
    /\ ctl.mode = "eval"
    /\ ctl.expr.t = "thunk"
    /\ ~ctl.is_tail
    /\ stack' = Push([k |-> "scheme_eval", pc |-> "call", expr |-> ctl.expr,
                      env |-> ctl.env, is_tail |-> ctl.is_tail, operator |-> None,
                      args |-> <<>>, rest |-> <<>>])
    /\ ctl' = Apply(ctl.expr, <<>>, ctl.env)
    /\ UNCHANGED <<frames, lambdas, prog, ip, out, defines>>

scheme_eval_self ==
    /\ ctl.mode = "eval"
    /\ ~IsPair(ctl.expr)
    /\ ctl.expr.t # "sym"
    /\ ~(ctl.expr.t = "thunk" /\ ~ctl.is_tail)
    /\ ctl' = Ret(ctl.expr)
    /\ UNCHANGED <<frames, lambdas, stack, prog, ip, out, defines>>

(* scheme_eval once the operator, or one more operand, has been evaluated.  *)
EvOperator == IF Top.pc = "operator" THEN ctl.val ELSE Top.operator
EvArgs == IF Top.pc = "args" THEN Append(Top.args, ctl.val) ELSE Top.args
EvReady ==
    /\ Returning("scheme_eval")
    /\ Top.pc \in {"operator", "args"}
    /\ scheme_procedurep(EvOperator)
    /\ EvOperator.t # "macro"

ThunkNever(operator, lams) == FALSE

ThunkCondition(operator, lams) ==
    operator.t = "lambda" /\ lams[operator.id].recursive_call

scheme_eval_macro ==
    /\ Returning("scheme_eval")
    /\ Top.pc = "operator"
    /\ ctl.val.t = "macro"
    /\ stack' = SetTop([Top EXCEPT !.pc = "call", !.operator = ctl.val])
    /\ ctl' = Apply(ctl.val, Top.rest, Top.env)
    /\ UNCHANGED <<frames, lambdas, prog, ip, out, defines>>

scheme_eval_operand ==
    /\ EvReady
    /\ Top.rest # <<>>
    /\ stack' = SetTop([Top EXCEPT !.pc = "args", !.operator = EvOperator,
                                   !.args = EvArgs, !.rest = Tail(Top.rest)])
    /\ ctl' = Eval(Head(Top.rest), Top.env, FALSE)
    /\ UNCHANGED <<frames, lambdas, prog, ip, out, defines>>

scheme_eval_tail_thunk ==
    /\ EvReady
    /\ Top.rest = <<>>
    /\ Top.is_tail
    /\ ThunkCondition(EvOperator, lambdas)
    /\ stack' = Pop
    /\ ctl' = Ret(ThunkProcedure(EvOperator, EvArgs))
    /\ UNCHANGED <<frames, lambdas, prog, ip, out, defines>>

scheme_eval_tail_apply ==
    /\ EvReady
    /\ Top.rest = <<>>
    /\ Top.is_tail
    /\ ~ThunkCondition(EvOperator, lambdas)
    /\ stack' = SetTop([Top EXCEPT !.pc = "call", !.operator = EvOperator, !.args = EvArgs])
    /\ ctl' = Apply(EvOperator, EvArgs, Top.env)
    /\ UNCHANGED <<frames, lambdas, prog, ip, out, defines>>

scheme_eval_complete_apply ==
    /\ EvReady
    /\ Top.rest = <<>>
    /\ ~Top.is_tail
    /\ stack' = Append(SetTop([Top EXCEPT !.pc = "call", !.operator = EvOperator,
                                          !.args = EvArgs]),
                       [k |-> "complete_apply", args |-> EvArgs, env |-> Top.env])
    /\ ctl' = Apply(EvOperator, EvArgs, Top.env)
    /\ UNCHANGED <<frames, lambdas, prog, ip, out, defines>>

scheme_eval_form ==
    /\ Returning("scheme_eval")
    /\ Top.pc = "operator"
    /\ scheme_special_formp(ctl.val)
    /\ LET c == Construct(ctl.val.s, List(Top.rest)) IN
        IF c.ok
        THEN /\ stack' = SetTop([Top EXCEPT !.pc = "call", !.operator = ctl.val])
             /\ ctl' = EvalNode(c.node, Top.env, Top.is_tail)
        ELSE /\ stack' = stack
             /\ ctl' = Raise(c, "init")
    /\ UNCHANGED <<frames, lambdas, prog, ip, out, defines>>

scheme_eval_invalid ==
    /\ Returning("scheme_eval")
    /\ Top.pc = "operator"
    /\ ~scheme_procedurep(ctl.val)
    /\ ~scheme_special_formp(ctl.val)
    /\ ctl' = Raise(SchemeError("Invalid operator"), "scheme_eval")
    /\ UNCHANGED <<frames, lambdas, stack, prog, ip, out, defines>>

scheme_eval_return ==
    /\ Returning("scheme_eval")
    /\ Top.pc = "call"
    /\ stack' = Pop
    /\ ctl' = ctl
    /\ UNCHANGED <<frames, lambdas, prog, ip, out, defines>>

(***************************************************************************)
(* complete_apply: the trampoline.                                         *)
(***************************************************************************)
complete_apply_loop ==
    /\ Returning("complete_apply")
    /\ ctl.val.t = "thunk"
    /\ ctl' = Apply(ctl.val, Top.args, Top.env)
    /\ UNCHANGED <<frames, lambdas, stack, prog, ip, out, defines>>

complete_apply_return ==
    /\ Returning("complete_apply")
    /\ ctl.val.t # "thunk"
    /\ stack' = Pop
    /\ ctl' = ctl
    /\ UNCHANGED <<frames, lambdas, prog, ip, out, defines>>

(***************************************************************************)
(* The apply methods of the procedure classes.                             *)
(***************************************************************************)
Applying(t) == ctl.mode = "apply" /\ ctl.procedure.t = t

BuiltinProcedure_apply ==
    /\ Applying("builtin")
    /\ LET r == BuiltinFn(ctl.procedure.s, ctl.args) IN
        ctl' = IF r.ok THEN Ret(r.val) ELSE Raise(r, "builtin")
    /\ UNCHANGED <<frames, lambdas, stack, prog, ip, out, defines>>

ParentCaller(self, env) == env

ParentOf(self, env) == self.env

ArityLoose(self, args) == Len(args) >= Len(self.formals.xs)

ArityOk(self, args) == Len(args) = Len(self.formals.xs)

LambdaProcedure_apply_arity ==
    /\ Applying("lambda")
    /\ ~ArityOk(lambdas[ctl.procedure.id], ctl.args)
    /\ ctl' = Raise(SchemeError("Incorrect arguments number"), "LambdaProcedure.apply")
    /\ UNCHANGED <<frames, lambdas, stack, prog, ip, out, defines>>

LambdaProcedure_apply ==
    /\ Applying("lambda")
    /\ Len(frames) < MaxFrames
    /\ LET id == ctl.procedure.id
           self == lambdas[id]
           new_env == Len(frames) + 1
           last == Len(self.body.xs) = 1
       IN /\ ArityOk(self, ctl.args)
          /\ frames' = DefineAll(Append(frames, Frame(ParentOf(self, ctl.env))), new_env,
                                 self.formals.xs, ctl.args)
          /\ defines' = LogDefineAll(defines, new_env, self.formals.xs, ctl.args)
          /\ lambdas' = [lambdas EXCEPT ![id].recursive_call = TRUE]
          /\ stack' = Push([k |-> "LambdaProcedure.apply", pc |-> IF last THEN "tail" ELSE "body",
                            self |-> id, new_env |-> new_env, env |-> ctl.env,
                            rest |-> Tail(self.body.xs)])
          /\ ctl' = Eval(Head(self.body.xs), new_env, last)
    /\ UNCHANGED <<prog, ip, out>>

LambdaProcedure_body ==
    /\ Returning("LambdaProcedure.apply")
    /\ Top.pc = "body"
    /\ LET last == Len(Top.rest) = 1 IN
        /\ stack' = SetTop([Top EXCEPT !.pc = IF last THEN "tail" ELSE "body",
                                       !.rest = Tail(Top.rest)])
        /\ ctl' = Eval(Head(Top.rest), Top.new_env, last)
    /\ UNCHANGED <<frames, lambdas, prog, ip, out, defines>>

LambdaProcedure_return ==
    /\ Returning("LambdaProcedure.apply")
    /\ Top.pc = "tail"
    /\ lambdas' = [lambdas EXCEPT ![Top.self].recursive_call = FALSE]
    /\ stack' = Pop
    /\ ctl' = ctl
    /\ UNCHANGED <<frames, prog, ip, out, defines>>

MuProcedure_apply ==
    /\ Applying("mu")
    /\ Len(lambdas) < MaxLambdas
    /\ lambdas' = Append(lambdas, LambdaProcedure(ctl.procedure.formals, ctl.procedure.body, ctl.env))
    /\ stack' = Push([k |-> "MuProcedure.apply", env |-> ctl.env])
    /\ ctl' = Apply(LambdaRef(Len(lambdas) + 1), ctl.args, ctl.env)
    /\ UNCHANGED <<frames, prog, ip, out, defines>>

MuProcedure_return ==
    /\ Returning("MuProcedure.apply")
    /\ stack' = Pop
    /\ ctl' = ctl
    /\ UNCHANGED <<frames, lambdas, prog, ip, out, defines>>

MacroProcedure_apply ==
    /\ Applying("macro")
    /\ Len(lambdas) < MaxLambdas
    /\ lambdas' = Append(lambdas, LambdaProcedure(ctl.procedure.params, ctl.procedure.body, ctl.env))
    /\ stack' = Push([k |-> "MacroProcedure.apply", pc |-> "expand", env |-> ctl.env])
    /\ ctl' = Apply(LambdaRef(Len(lambdas) + 1), ctl.args, ctl.env)
    /\ UNCHANGED <<frames, prog, ip, out, defines>>

MacroProcedure_eval ==
    /\ Returning("MacroProcedure.apply")
    /\ Top.pc = "expand"
    /\ stack' = SetTop([Top EXCEPT !.pc = "eval"])
    /\ ctl' = Eval(ctl.val, Top.env, FALSE)
    /\ UNCHANGED <<frames, lambdas, prog, ip, out, defines>>

MacroProcedure_return ==
    /\ Returning("MacroProcedure.apply")
    /\ Top.pc = "eval"
    /\ stack' = Pop
    /\ ctl' = ctl
    /\ UNCHANGED <<frames, lambdas, prog, ip, out, defines>>

ThunkProcedure_apply ==
    /\ Applying("thunk")
    /\ ctl' = Apply(ctl.procedure.procedure, ctl.procedure.args, ctl.env)
    /\ UNCHANGED <<frames, lambdas, stack, prog, ip, out, defines>>

(***************************************************************************)
(* The eval methods of the special forms.                                  *)
(***************************************************************************)
Evaluating(form) == ctl.mode = "form" /\ ctl.node.form = form

DefineForm_eval ==
    /\ Evaluating("define")
    /\ stack' = Push([k |-> "DefineForm.eval", name |-> ctl.node.name, env |-> ctl.env])
    /\ ctl' = Eval(ctl.node.expr, ctl.env, FALSE)
    /\ UNCHANGED <<frames, lambdas, prog, ip, out, defines>>

DefineForm_define ==
    /\ Returning("DefineForm.eval")
    /\ frames' = Define(frames, Top.env, Top.name.s, ctl.val)
    /\ defines' = LogDefine(defines, Top.env, Top.name.s, ctl.val)
    /\ stack' = Pop
    /\ ctl' = Ret(Top.name)
    /\ UNCHANGED <<lambdas, prog, ip, out>>

IfForm_eval ==
    /\ Evaluating("if")
    /\ stack' = Push([k |-> "IfForm.eval", pc |-> "predicate", node |-> ctl.node,
                      env |-> ctl.env, is_tail |-> ctl.is_tail])
    /\ ctl' = Eval(ctl.node.predicate, ctl.env, FALSE)
    /\ UNCHANGED <<frames, lambdas, prog, ip, out, defines>>

IfForm_consequent ==
    /\ Returning("IfForm.eval")
    /\ Top.pc = "predicate"
    /\ scheme_boolean(ctl.val)
    /\ stack' = SetTop([Top EXCEPT !.pc = "branch"])
    /\ ctl' = Eval(Top.node.consequent, Top.env, Top.is_tail)
    /\ UNCHANGED <<frames, lambdas, prog, ip, out, defines>>

IfForm_alternative ==
    /\ Returning("IfForm.eval")
    /\ Top.pc = "predicate"
    /\ ~scheme_boolean(ctl.val)
    /\ Top.node.alternative # nil
    /\ stack' = SetTop([Top EXCEPT !.pc = "branch"])
    /\ ctl' = Eval(Top.node.alternative.xs[1], Top.env, Top.is_tail)
    /\ UNCHANGED <<frames, lambdas, prog, ip, out, defines>>

IfForm_none ==
    /\ Returning("IfForm.eval")
    /\ Top.pc = "predicate"
    /\ ~scheme_boolean(ctl.val)
    /\ Top.node.alternative = nil
    /\ stack' = Pop
    /\ ctl' = Ret(None)
    /\ UNCHANGED <<frames, lambdas, prog, ip, out, defines>>

IfForm_return ==
    /\ Returning("IfForm.eval")
    /\ Top.pc = "branch"
    /\ stack' = Pop
    /\ ctl' = ctl
    /\ UNCHANGED <<frames, lambdas, prog, ip, out, defines>>

(* CondForm.eval at the head of the clauses CS: the record to have on top   *)
(* of the stack and the control.                                            *)
CondClause(cs, env, is_tail) ==
    IF ~IsPair(Head(cs))
    THEN [rec |-> [k |-> "CondForm.eval", pc |-> "test", clauses |-> Tail(cs), exprs |-> <<>>,
                   env |-> env, is_tail |-> is_tail],
          ctl |-> Raise(HostError("AttributeError"), "CondForm.eval")]
    ELSE [rec |-> [k |-> "CondForm.eval", pc |-> "test", clauses |-> Tail(cs),
                   exprs |-> Tail(Head(cs).xs), env |-> env, is_tail |-> is_tail],
          ctl |-> Eval(Head(cs).xs[1], env, FALSE)]

CondForm_eval ==
    /\ Evaluating("cond")
    /\ LET n == CondClause(ctl.node.clauses.xs, ctl.env, ctl.is_tail) IN
        /\ stack' = Push(n.rec)
        /\ ctl' = n.ctl
    /\ UNCHANGED <<frames, lambdas, prog, ip, out, defines>>

CondForm_select ==
    /\ Returning("CondForm.eval")
    /\ Top.pc = "test"
    /\ scheme_boolean(ctl.val)
    /\ Top.exprs # <<>>
    /\ LET last == Len(Top.exprs) = 1 IN
        /\ stack' = SetTop([Top EXCEPT !.pc = IF last THEN "tail" ELSE "body",
                                       !.exprs = Tail(Top.exprs)])
        /\ ctl' = Eval(Head(Top.exprs), Top.env, last /\ Top.is_tail)
    /\ UNCHANGED <<frames, lambdas, prog, ip, out, defines>>

CondForm_test_value ==
    /\ Returning("CondForm.eval")
    /\ Top.pc = "test"
    /\ scheme_boolean(ctl.val)
    /\ Top.exprs = <<>>
    /\ stack' = Pop
    /\ ctl' = ctl
    /\ UNCHANGED <<frames, lambdas, prog, ip, out, defines>>

CondForm_next ==
    /\ Returning("CondForm.eval")
    /\ Top.pc = "test"
    /\ ~scheme_boolean(ctl.val)
    /\ Top.clauses # <<>>
    /\ LET n == CondClause(Top.clauses, Top.env, Top.is_tail) IN
        /\ stack' = SetTop(n.rec)
        /\ ctl' = n.ctl
    /\ UNCHANGED <<frames, lambdas, prog, ip, out, defines>>

CondForm_none ==
    /\ Returning("CondForm.eval")
    /\ Top.pc = "test"
    /\ ~scheme_boolean(ctl.val)
    /\ Top.clauses = <<>>
    /\ stack' = Pop
    /\ ctl' = Ret(None)
    /\ UNCHANGED <<frames, lambdas, prog, ip, out, defines>>

CondForm_body ==
    /\ Returning("CondForm.eval")
    /\ Top.pc = "body"
    /\ LET last == Len(Top.exprs) = 1 IN
        /\ stack' = SetTop([Top EXCEPT !.pc = IF last THEN "tail" ELSE "body",
                                       !.exprs = Tail(Top.exprs)])
        /\ ctl' = Eval(Head(Top.exprs), Top.env, last /\ Top.is_tail)
    /\ UNCHANGED <<frames, lambdas, prog, ip, out, defines>>

CondForm_return ==
    /\ Returning("CondForm.eval")
    /\ Top.pc = "tail"
    /\ stack' = Pop
    /\ ctl' = ctl
    /\ UNCHANGED <<frames, lambdas, prog, ip, out, defines>>

AndForm_empty ==
    /\ Evaluating("and")
    /\ ctl.node.tests = nil
    /\ ctl' = Ret(Bool(TRUE))
    /\ UNCHANGED <<frames, lambdas, stack, prog, ip, out, defines>>

AndForm_eval ==
    /\ Evaluating("and")
    /\ ctl.node.tests # nil
    /\ LET tests == ctl.node.tests.xs IN
        /\ stack' = Push([k |-> "AndForm.eval", tests |-> Tail(tests), env |-> ctl.env,
                          is_tail |-> ctl.is_tail])
        /\ ctl' = Eval(Head(tests), ctl.env, ctl.is_tail /\ Tail(tests) = <<>>)
    /\ UNCHANGED <<frames, lambdas, prog, ip, out, defines>>

AndForm_short ==
    /\ Returning("AndForm.eval")
    /\ ~scheme_boolean(ctl.val)
    /\ stack' = Pop
    /\ ctl' = ctl
    /\ UNCHANGED <<frames, lambdas, prog, ip, out, defines>>

AndForm_next ==
    /\ Returning("AndForm.eval")
    /\ scheme_boolean(ctl.val)
    /\ Top.tests # <<>>
    /\ stack' = SetTop([Top EXCEPT !.tests = Tail(Top.tests)])
    /\ ctl' = Eval(Head(Top.tests), Top.env, Top.is_tail /\ Tail(Top.tests) = <<>>)
    /\ UNCHANGED <<frames, lambdas, prog, ip, out, defines>>

AndForm_last ==
    /\ Returning("AndForm.eval")
    /\ scheme_boolean(ctl.val)
    /\ Top.tests = <<>>
    /\ stack' = Pop
    /\ ctl' = ctl
    /\ UNCHANGED <<frames, lambdas, prog, ip, out, defines>>

OrForm_empty ==
    /\ Evaluating("or")
    /\ ctl.node.tests = nil
    /\ ctl' = Ret(Bool(FALSE))
    /\ UNCHANGED <<frames, lambdas, stack, prog, ip, out, defines>>

OrForm_eval ==
    /\ Evaluating("or")
    /\ ctl.node.tests # nil
    /\ LET tests == ctl.node.tests.xs IN
        /\ stack' = Push([k |-> "OrForm.eval", tests |-> Tail(tests), env |-> ctl.env,
                          is_tail |-> ctl.is_tail])
        /\ ctl' = Eval(Head(tests), ctl.env, ctl.is_tail /\ Tail(tests) = <<>>)
    /\ UNCHANGED <<frames, lambdas, prog, ip, out, defines>>

OrForm_short ==
    /\ Returning("OrForm.eval")
    /\ scheme_boolean(ctl.val)
    /\ stack' = Pop
    /\ ctl' = ctl
    /\ UNCHANGED <<frames, lambdas, prog, ip, out, defines>>

OrForm_next ==
    /\ Returning("OrForm.eval")
    /\ ~scheme_boolean(ctl.val)
    /\ Top.tests # <<>>
    /\ stack' = SetTop([Top EXCEPT !.tests = Tail(Top.tests)])
    /\ ctl' = Eval(Head(Top.tests), Top.env, Top.is_tail /\ Tail(Top.tests) = <<>>)
    /\ UNCHANGED <<frames, lambdas, prog, ip, out, defines>>

OrForm_none ==
    /\ Returning("OrForm.eval")
    /\ ~scheme_boolean(ctl.val)
    /\ Top.tests = <<>>
    /\ stack' = Pop
    /\ ctl' = Ret(Bool(FALSE))
    /\ UNCHANGED <<frames, lambdas, prog, ip, out, defines>>

(* The body loop shared by LetForm.eval and BeginForm.eval: the record and  *)
(* the control that evaluate the first of EXPRS, the last in tail position. *)
BodyStep(rec, exprs, env) ==
    LET last == Len(exprs) = 1 IN
    [rec |-> [rec EXCEPT !.pc = IF last THEN "tail" ELSE "body", !.body = Tail(exprs)],
     ctl |-> Eval(Head(exprs), env, last /\ rec.is_tail)]

LetBindingEnvInner(rec) == rec.new_env

LetBindingEnv(rec) == rec.env

(* LetForm.eval at the head of the bindings XS (lines 334-337), or at the   *)
(* body when there is none left.                                            *)
LetStep(rec, xs) ==
    IF xs = <<>> THEN BodyStep([rec EXCEPT !.binding = <<>>], rec.body, rec.new_env)
    ELSE LET expr == Head(xs)
             v == validate_form(expr, 2, 2)
         IN IF ~v.ok THEN [rec |-> rec, ctl |-> Raise(v, "LetForm.eval")]
            ELSE LET f == validate_formals(List(<<expr.xs[1]>>)) IN
                 IF ~f.ok THEN [rec |-> rec, ctl |-> Raise(f, "LetForm.eval")]
                 ELSE [rec |-> [rec EXCEPT !.pc = "binding", !.name = expr.xs[1],
                                           !.binding = Tail(xs)],
                       ctl |-> Eval(expr.xs[2], LetBindingEnv(rec), FALSE)]

LetForm_eval ==
    /\ Evaluating("let")
    /\ Len(frames) < MaxFrames
    /\ LET rec == [k |-> "LetForm.eval", pc |-> "binding", self |-> ctl.node, name |-> None,
                   binding |-> <<>>, body |-> ctl.node.body.xs,
                   new_env |-> Len(frames) + 1, env |-> ctl.env, is_tail |-> ctl.is_tail]
           b == ctl.node.binding
           n == IF b.t = "list" THEN LetStep(rec, b.xs)
                ELSE IF b.t = "sym"
                THEN [rec |-> rec, ctl |-> Raise(SchemeError("badly formed expression"), "LetForm.eval")]
                ELSE [rec |-> rec, ctl |-> Raise(HostError("TypeError"), "LetForm.eval")]
       IN /\ frames' = Append(frames, Frame(ctl.env))
          /\ stack' = Push(n.rec)
          /\ ctl' = n.ctl
    /\ UNCHANGED <<lambdas, prog, ip, out, defines>>

LetForm_bind ==
    /\ Returning("LetForm.eval")
    /\ Top.pc = "binding"
    /\ frames' = Define(frames, Top.new_env, Top.name.s, ctl.val)
    /\ defines' = LogDefine(defines, Top.new_env, Top.name.s, ctl.val)
    /\ LET n == LetStep(Top, Top.binding) IN
        /\ stack' = SetTop(n.rec)
        /\ ctl' = n.ctl
    /\ UNCHANGED <<lambdas, prog, ip, out>>

LetForm_body ==
    /\ Returning("LetForm.eval")
    /\ Top.pc = "body"
    /\ LET n == BodyStep(Top, Top.body, Top.new_env) IN
        /\ stack' = SetTop(n.rec)
        /\ ctl' = n.ctl
    /\ UNCHANGED <<frames, lambdas, prog, ip, out, defines>>

LetForm_return ==
    /\ Returning("LetForm.eval")
    /\ Top.pc = "tail"
    /\ stack' = Pop
    /\ ctl' = ctl
    /\ UNCHANGED <<frames, lambdas, prog, ip, out, defines>>

BeginForm_eval ==
    /\ Evaluating("begin")
    /\ LET n == BodyStep([k |-> "BeginForm.eval", pc |-> "body", body |-> <<>>,
                          env |-> ctl.env, is_tail |-> ctl.is_tail],
                         ctl.node.exprs.xs, ctl.env) IN
        /\ stack' = Push(n.rec)
        /\ ctl' = n.ctl
    /\ UNCHANGED <<frames, lambdas, prog, ip, out, defines>>

BeginForm_body ==
    /\ Returning("BeginForm.eval")
    /\ Top.pc = "body"
    /\ LET n == BodyStep(Top, Top.body, Top.env) IN
        /\ stack' = SetTop(n.rec)
        /\ ctl' = n.ctl
    /\ UNCHANGED <<frames, lambdas, prog, ip, out, defines>>

BeginForm_return ==
    /\ Returning("BeginForm.eval")
    /\ Top.pc = "tail"
    /\ stack' = Pop
    /\ ctl' = ctl
    /\ UNCHANGED <<frames, lambdas, prog, ip, out, defines>>

LambdaForm_eval ==
    /\ Evaluating("lambda")
    /\ Len(lambdas) < MaxLambdas
    /\ lambdas' = Append(lambdas, LambdaProcedure(ctl.node.formals, ctl.node.body, ctl.env))
    /\ ctl' = Ret(LambdaRef(Len(lambdas) + 1))
    /\ UNCHANGED <<frames, stack, prog, ip, out, defines>>

MuForm_eval ==
    /\ Evaluating("mu")
    /\ ctl' = Ret(MuProcedure(ctl.node.formals, ctl.node.body))
    /\ UNCHANGED <<frames, lambdas, stack, prog, ip, out, defines>>

QuoteForm_eval ==
    /\ Evaluating("quote")
    /\ ctl' = Ret(ctl.node.expr)
    /\ UNCHANGED <<frames, lambdas, stack, prog, ip, out, defines>>

DefineMacroForm_eval ==
    /\ Evaluating("define-macro")
    /\ frames' = Define(frames, ctl.env, ctl.node.name.s,
                        MacroProcedure(ctl.node.params, ctl.node.body))
    /\ defines' = LogDefine(defines, ctl.env, ctl.node.name.s,
                            MacroProcedure(ctl.node.params, ctl.node.body))
    /\ ctl' = Ret(ctl.node.name)
    /\ UNCHANGED <<lambdas, stack, prog, ip, out>>

(***************************************************************************)
(* The inputs: programs, each a sequence of top-level expressions.         *)
(***************************************************************************)
Q(x) == List(<<Sym("quote"), x>>)
DefineE(name, expr) == List(<<Sym("define"), Sym(name), expr>>)
DefineP(name, formals, body) ==
    List(<<Sym("define"), List(<<Sym(name)>> \o [i \in DOMAIN formals |-> Sym(formals[i])])>> \o body)
LambdaE(formals, body) ==
    List(<<Sym("lambda"), List([i \in DOMAIN formals |-> Sym(formals[i])])>> \o body)
MuE(formals, body) ==
    List(<<Sym("mu"), List([i \in DOMAIN formals |-> Sym(formals[i])])>> \o body)
F == Bool(FALSE)
T == Bool(TRUE)

(* (define (f n) (if (= n 0) 0 (f (- n 1)))) (f N)                          *)
Countdown(N) ==
    << DefineP("f", <<"n">>,
         <<List(<<Sym("if"), List(<<Sym("="), Sym("n"), Num(0)>>), Num(0),
                  List(<<Sym("f"), List(<<Sym("-"), Sym("n"), Num(1)>>)>>)>>)>>),
       List(<<Sym("f"), Num(N)>>) >>

CountdownPrograms == {Countdown(N) : N \in 0..MaxN}

(* (define-macro (twice e) (list 'begin e e)) and a call with an effect.    *)
MacroTwice ==
    << DefineE("x", Num(0)),
       List(<<Sym("define-macro"), List(<<Sym("twice"), Sym("e")>>),
              List(<<Sym("list"), Q(Sym("begin")), Sym("e"), Sym("e")>>)>>),
       List(<<Sym("twice"), DefineE("x", List(<<Sym("-"), Sym("x"), Num(1)>>))>>),
       Sym("x") >>

(* A macro that ignores its operand, which would fail if evaluated.         *)
MacroIgnore ==
    << List(<<Sym("define-macro"), List(<<Sym("ign"), Sym("e")>>), Num(5)>>),
       List(<<Sym("ign"), List(<<Sym("boom")>>)>>) >>

(* A macro whose body ends in a call of the closure that is running:        *)
(* (define-macro (mac) (g #f)) (define (g n) (if n (mac) ''a)) (g #t)       *)
MacroTailCall ==
    << List(<<Sym("define-macro"), List(<<Sym("mac")>>), List(<<Sym("g"), F>>)>>),
       DefineP("g", <<"n">>,
         <<List(<<Sym("if"), Sym("n"), List(<<Sym("mac")>>), Q(Q(Sym("a")))>>)>>),
       List(<<Sym("g"), T>>) >>

(* A macro called outside tail position while g runs, whose body's call of *)
(* g makes a tail call of g in turn:                                        *)
(* (define-macro (mac) (g 1))                                               *)
(* (define (g n) (if (= n 2) (list (mac)) (if (= n 1) (g 0) 7))) (g 2)      *)
MacroThunkChain ==
    << List(<<Sym("define-macro"), List(<<Sym("mac")>>), List(<<Sym("g"), Num(1)>>)>>),
       DefineP("g", <<"n">>,
         <<List(<<Sym("if"), List(<<Sym("="), Sym("n"), Num(2)>>),
                  List(<<Sym("list"), List(<<Sym("mac")>>)>>),
                  List(<<Sym("if"), List(<<Sym("="), Sym("n"), Num(1)>>),
                         List(<<Sym("g"), Num(0)>>), Num(7)>>)>>)>>),
       List(<<Sym("g"), Num(2)>>) >>

MacroPrograms == {MacroTwice, MacroIgnore, MacroTailCall, MacroThunkChain}

(* Dynamic and lexical scope: f reads the free variable x.                  *)
ScopeProgram(f, g) == << DefineE("x", Num(1)), DefineE("f", f), DefineE("g", g),
                         List(<<Sym("g"), Num(2)>>), List(<<Sym("f")>>) >>
CallF == List(<<Sym("f")>>)
ScopePrograms ==
    { ScopeProgram(f, g) :
        f \in {MuE(<<>>, <<Sym("x")>>), LambdaE(<<>>, <<Sym("x")>>)},
        g \in {LambdaE(<<"x">>, <<CallF>>),
               LambdaE(<<"x">>, <<List(<<Sym("-"), CallF, Num(0)>>)>>),
               MuE(<<"x">>, <<CallF>>),
               LambdaE(<<"x">>, <<List(<<Sym("let"), List(<<List(<<Sym("x"), Num(3)>>)>>), CallF>>)>>)} }

(* A closure made in a let frame, called again through the trampoline:      *)
(* (define x 1) (define h (let ((x 5)) (lambda (n) (if n (h #f) x)))) (h #t)*)
ScopeTrampoline ==
    << DefineE("x", Num(1)),
       DefineE("h", List(<<Sym("let"), List(<<List(<<Sym("x"), Num(5)>>)>>),
          LambdaE(<<"n">>, <<List(<<Sym("if"), Sym("n"), List(<<Sym("h"), F>>), Sym("x")>>)>>)>>)),
       List(<<Sym("h"), T>>) >>

LetE(bindings, body) == List(<<Sym("let"), List(bindings)>> \o body)
B2(name, expr) == List(<<Sym(name), expr>>)

XY == LetE(<<B2("x", Num(1)), B2("y", Sym("x"))>>, <<Sym("y")>>)
LetUnbound == << XY >>
LetOuter == << DefineE("x", Num(5)), XY, Sym("x") >>
LetSelf ==
    << DefineE("x", Num(5)),
       LetE(<<B2("x", List(<<Sym("-"), Sym("x"), Num(1)>>))>>, <<DefineE("z", Sym("x")), Sym("z")>>),
       Sym("z"), Sym("x") >>
LetNested ==
    << LetE(<<>>, <<Num(1), Num(2), Num(3)>>),
       List(<<LambdaE(<<"a">>, <<Num(0), LetE(<<B2("b", Sym("a"))>>, <<Sym("b")>>)>>), Num(7)>>) >>
LetPrograms == {LetUnbound, LetOuter, LetSelf, LetNested}

(* Let forms that are not well formed.                                      *)
LetShortBinding ==
    << LetE(<<B2("x", DefineE("y", Num(1))), List(<<Sym("z")>>)>>, <<Sym("x")>>), Sym("y") >>
LetDuplicate == << LetE(<<B2("x", Num(1)), B2("x", Num(2))>>, <<Sym("x")>>) >>
LetNonSymbol ==
    << LetE(<<B2("x", DefineE("y", Num(1))), List(<<Num(5), Num(2)>>)>>, <<Sym("x")>>), Sym("y") >>
LetShapes ==
    << LetE(<<List(<<Num(5), Num(2)>>)>>, <<Num(1)>>), LetE(<<Sym("x")>>, <<Num(1)>>),
       List(<<Sym("let"), Sym("x"), Num(1)>>), List(<<Sym("let"), List(<<>>)>>),
       List(<<Sym("let"), Num(5), Num(1)>>), Num(1) >>
BadLetPrograms == {LetShortBinding, LetDuplicate, LetNonSymbol, LetShapes}

(* Forms whose operand list has the wrong length or shape.                  *)
Malformed ==
    << List(<<Sym("if"), Num(1)>>), List(<<Sym("if"), Num(1), Num(2), Num(3), Num(4)>>),
       List(<<Sym("quote")>>), List(<<Sym("quote"), Num(1), Num(2)>>),
       List(<<Sym("begin")>>), List(<<Sym("lambda"), List(<<Sym("x")>>)>>),
       LambdaE(<<"x", "x">>, <<Num(1)>>), List(<<Sym("lambda"), List(<<Num(1)>>), Num(1)>>),
       MuE(<<"x", "x">>, <<Num(1)>>), List(<<Sym("mu"), List(<<>>)>>),
       List(<<Sym("define"), Sym("x")>>), List(<<Sym("define"), Num(5), Num(1)>>),
       List(<<Sym("define"), List(<<>>), Num(1)>>),
       List(<<Sym("cond")>>), List(<<Sym("define-macro"), List(<<Sym("m")>>)>>),
       List(<<Sym("define-macro"), Num(5), Num(1)>>),
       List(<<Sym("define-macro"), List(<<Sym("m"), Sym("a"), Sym("a")>>), Num(1)>>),
       List(<<Num(1), Num(2)>>),
       List(<<Sym("define"), Sym("x"), Num(1), Num(2)>>), Sym("x"),
       List(<<Sym("cond"), List(<<List(<<Sym("="), Num(1), Num(2)>>), Num(0)>>), Num(5),
              List(<<Sym("else"), Num(1)>>)>>), Num(1) >>

MalformedPrograms == {Malformed, << List(<<Sym("cond"), Num(5)>>), Num(1) >>}

(* Calls with too few and too many arguments.                               *)
ArityProgram(p) ==
    << DefineE("f", p), List(<<Sym("f"), Num(1)>>), List(<<Sym("f"), Num(1), Num(2), Num(3)>>),
       List(<<Sym("f"), Num(1), Num(2)>>),
       DefineP("g", <<"n">>, <<List(<<Sym("f"), Sym("n")>>)>>), List(<<Sym("g"), Num(1)>>),
       List(<<Sym("="), Num(1)>>), List(<<Sym("-"), Num(1)>>), List(<<Sym("="), T, T>>) >>

ArityPrograms == {ArityProgram(LambdaE(<<"a", "b">>, <<Sym("b")>>)),
                  ArityProgram(MuE(<<"a", "b">>, <<Sym("b")>>))}

(* The and/or family: (define (f a b) (if a b FORM)) puts FORM in tail      *)
(* position of the running closure f; (f #t v) is a test of value v that    *)
(* is a call.                                                               *)
CallTest(v) == List(<<Sym("f"), T, v>>)
TestExprs == {F, Num(0), nil, CallTest(F), CallTest(Num(1))}
TestSeqs == UNION {[1..n -> TestExprs] : n \in 0..MaxTests}
TestValue(test) == IF IsPair(test) THEN test.xs[3] ELSE test
FormIn(kind, operands) == List(<<Sym(kind)>> \o operands)
InTail(form) ==
    << DefineP("f", <<"a", "b">>, <<List(<<Sym("if"), Sym("a"), Sym("b"), form>>)>>),
       List(<<Sym("f"), F, Num(9)>>) >>
AtTop(form) ==
    << DefineP("f", <<"a", "b">>, <<List(<<Sym("if"), Sym("a"), Sym("b"), F>>)>>), form >>
AndOrPrograms ==
    {InTail(FormIn(kind, tests)) : kind \in {"and", "or"}, tests \in TestSeqs}
    \cup {AtTop(FormIn(kind, tests)) : kind \in {"and", "or"}, tests \in TestSeqs}

(* The cond family, in the same two positions.  A test or a body           *)
(* expression that is a call leaves its argument in the log of defines.     *)
Clauses ==
    { List(<<F, CallTest(Num(2)), CallTest(Num(3))>>),
      List(<<CallTest(F)>>),
      List(<<Num(0)>>),
      List(<<CallTest(Num(1))>>),
      List(<<Num(0), CallTest(Num(3))>>),
      List(<<CallTest(Num(1)), CallTest(Num(2)), CallTest(Num(3))>>),
      List(<<Sym("else")>>),
      List(<<Sym("else"), CallTest(Num(2)), CallTest(Num(3))>>) }
ClauseSeqs ==
    {cs \in UNION {[1..n -> Clauses] : n \in 1..MaxClauses} :
        \A i \in 1..(Len(cs) - 1) : cs[i].xs[1] # Sym("else")}
CondPrograms ==
    {InTail(FormIn("cond", cs)) : cs \in ClauseSeqs}
    \cup {AtTop(FormIn("cond", cs)) : cs \in ClauseSeqs}

(* (cond (#f 1) (else 2 3)), an if without alternative, begin.              *)
Various ==
    << List(<<Sym("cond"), List(<<F, Num(1)>>), List(<<Sym("else"), Num(2), Num(3)>>)>>),
       List(<<Sym("if"), F, Num(1)>>),
       List(<<Sym("begin"), DefineE("u", Num(1)), Sym("u")>>),
       List(<<Sym("and"), Num(1), F, Num(2)>>),
       List(<<Sym("or"), F, F, Num(3)>>) >>

Programs ==
    {Various} \cup CondPrograms \cup CountdownPrograms \cup MacroPrograms \cup ScopePrograms \cup {ScopeTrampoline}
    \cup LetPrograms \cup BadLetPrograms \cup MalformedPrograms \cup ArityPrograms
    \cup AndOrPrograms

(***************************************************************************)
(* The specification.                                                      *)
(***************************************************************************)
Init ==
    /\ frames = create_global_frame
    /\ lambdas = <<>>
    /\ stack = <<>>
    /\ ctl = Idle
    /\ prog \in Programs
    /\ ip = 1
    /\ out = <<>>
    /\ defines = <<>>

Next ==
    \/ repl_read \/ repl_print \/ repl_except \/ repl_crash
    \/ scheme_eval_pair \/ scheme_eval_symbol \/ scheme_eval_thunk \/ scheme_eval_self
    \/ scheme_eval_macro \/ scheme_eval_operand \/ scheme_eval_tail_thunk
    \/ scheme_eval_tail_apply \/ scheme_eval_complete_apply \/ scheme_eval_form
    \/ scheme_eval_invalid \/ scheme_eval_return
    \/ complete_apply_loop \/ complete_apply_return
    \/ BuiltinProcedure_apply \/ LambdaProcedure_apply_arity \/ LambdaProcedure_apply
    \/ LambdaProcedure_body \/ LambdaProcedure_return
    \/ MuProcedure_apply \/ MuProcedure_return
    \/ MacroProcedure_apply \/ MacroProcedure_eval \/ MacroProcedure_return
    \/ ThunkProcedure_apply
    \/ DefineForm_eval \/ DefineForm_define
    \/ IfForm_eval \/ IfForm_consequent \/ IfForm_alternative \/ IfForm_none \/ IfForm_return
    \/ CondForm_eval \/ CondForm_select \/ CondForm_test_value \/ CondForm_next
    \/ CondForm_none \/ CondForm_body \/ CondForm_return
    \/ AndForm_empty \/ AndForm_eval \/ AndForm_short \/ AndForm_next \/ AndForm_last
    \/ OrForm_empty \/ OrForm_eval \/ OrForm_short \/ OrForm_next \/ OrForm_none
    \/ LetForm_eval \/ LetForm_bind \/ LetForm_body \/ LetForm_return
    \/ BeginForm_eval \/ BeginForm_body \/ BeginForm_return
    \/ LambdaForm_eval \/ MuForm_eval \/ QuoteForm_eval \/ DefineMacroForm_eval

Spec == Init /\ [][Next]_vars

Finished == ctl.mode = "idle" /\ ip > Len(prog)

(* The interpreter always takes its next step.                              *)
FairSpec == Spec /\ WF_vars(Next)

(***************************************************************************)
(* Properties.                                                             *)
(***************************************************************************)
ActiveApplies(id) ==
    Cardinality({i \in DOMAIN stack : stack[i].k = "LambdaProcedure.apply" /\ stack[i].self = id})

Output(i) == IF i \in DOMAIN out THEN out[i] ELSE [t |-> "nothing"]

(* C1: the countdown (f N) runs with at most one LambdaProcedure.apply of f *)
(* active and a host stack no deeper than 9 activations whatever N is;      *)
(* every application of f is made by complete_apply, right under the        *)
(* top-level scheme_eval; the run ends, and prints 0.                       *)
C1_Depth ==
    prog \in CountdownPrograms =>
        /\ \A id \in DOMAIN lambdas : ActiveApplies(id) <= 1
        /\ Len(stack) <= 9
        /\ (ctl.mode = "apply" /\ ctl.procedure.t \in {"lambda", "thunk"}) =>
               (Len(stack) = 2 /\ Top.k = "complete_apply")
        /\ Finished => out = <<Sym("f"), Num(0)>>

C1_TailIteration == [](C1_Depth) /\ ((prog \in CountdownPrograms) ~> Finished)

C1_Witness ==
    /\ prog = Countdown(MaxN)
    /\ Returning("complete_apply")
    /\ ctl.val = ThunkProcedure(LambdaRef(1), <<Num(0)>>)
    /\ Len(frames) = MaxN + 1

(* C2: the value a macro's body is evaluated to, which MacroProcedure.apply *)
(* evaluates once more in the caller's environment, is the expansion, never *)
(* a pending Thunk; so (g #t), where g's body calls the macro mac whose     *)
(* body is (g #f) and (g #f) is ''a, is the symbol a.                       *)
C2_TwoStage ==
    /\ ~(Returning("MacroProcedure.apply") /\ Top.pc = "expand" /\ ctl.val.t = "thunk")
    /\ (prog = MacroTailCall /\ Finished) => Output(3) = Sym("a")

(* C3: a frame made by applying a mu procedure has the environment of the   *)
(* call expression as its parent; a frame made by applying a lambda closure *)
(* has the closure's captured frame as its parent, whatever environment the *)
(* call is made from; so a free variable of a mu body is the caller's and   *)
(* one of a lambda body is the definition site's.                           *)
NearestEval(i) ==
    CHOOSE j \in 1..(i - 1) :
        /\ stack[j].k = "scheme_eval"
        /\ \A m \in (j + 1)..(i - 1) : stack[m].k # "scheme_eval"

UnderMu(i) == i > 1 /\ stack[i - 1].k = "MuProcedure.apply"

C3_Scope ==
    /\ \A i \in DOMAIN stack :
        (stack[i].k = "LambdaProcedure.apply" /\ UnderMu(i)) =>
            LET site == stack[NearestEval(i)] IN
            /\ site.pc = "call"
            /\ site.operator.t = "mu"
            /\ frames[stack[i].new_env].parent = site.env
    /\ \A i \in DOMAIN stack :
        (stack[i].k = "LambdaProcedure.apply" /\ ~UnderMu(i)) =>
            frames[stack[i].new_env].parent = lambdas[stack[i].self].env
    /\ (prog \in ScopePrograms /\ Finished) =>
        LET f == prog[2].xs[3]
            body == prog[3].xs[3].xs[3]
        IN /\ Output(5) = Num(1)
           /\ Output(4) = IF f.xs[1] # Sym("mu") THEN Num(1)
                          ELSE IF body.xs[1] = Sym("let") THEN Num(3) ELSE Num(2)
    /\ (prog = ScopeTrampoline /\ Finished) => Output(3) = Num(5)

C3_Witness ==
    /\ prog \in ScopePrograms
    /\ stack # <<>>
    /\ Top.k = "LambdaProcedure.apply"
    /\ UnderMu(Len(stack))
    /\ Top.env = 3
    /\ ctl = Ret(Num(3))

(***************************************************************************)
(* Frames on their own: any sequence of Frame(parent) and define.          *)
(***************************************************************************)
FrameNames == {"a", "b"}
FrameValues == {Num(0), Num(1)}

InitFrames ==
    /\ frames = <<Frame(0)>>
    /\ lambdas = <<>>
    /\ stack = <<>>
    /\ ctl = Idle
    /\ prog = <<>>
    /\ ip = 1
    /\ out = <<>>
    /\ defines = <<>>

Frame_init ==
    /\ Len(frames) < MaxChain
    /\ \E parent \in DOMAIN frames : frames' = Append(frames, Frame(parent))
    /\ UNCHANGED <<lambdas, stack, ctl, prog, ip, out, defines>>

Frame_define ==
    /\ Len(defines) < MaxDefines
    /\ \E i \in DOMAIN frames, symbol \in FrameNames, value \in FrameValues :
        /\ frames' = Define(frames, i, symbol, value)
        /\ defines' = LogDefine(defines, i, symbol, value)
    /\ UNCHANGED <<lambdas, stack, ctl, prog, ip, out>>

NextFrames == Frame_init \/ Frame_define

SpecFrames == InitFrames /\ [][NextFrames]_vars

RECURSIVE Chain(_)
Chain(i) == IF frames[i].parent = 0 THEN <<i>> ELSE <<i>> \o Chain(frames[i].parent)

DefinesOf(i, symbol) ==
    {k \in DOMAIN defines : defines[k].frame = i /\ defines[k].symbol = symbol}

LastDefined(i, symbol) ==
    LET ks == DefinesOf(i, symbol) IN
    defines[CHOOSE k \in ks : \A m \in ks : m <= k].value

(* C4: lookup from any frame G returns the value of the latest define of    *)
(* the name in the nearest frame of G's chain that any define of the name   *)
(* was made on, and fails exactly when there was none on the whole chain    *)
(* (so a define shows in no other frame's own bindings).                    *)
C4_Lookup ==
    \A G \in DOMAIN frames, symbol \in FrameNames :
        LET chain == Chain(G)
            binders == {k \in DOMAIN chain : DefinesOf(chain[k], symbol) # {}}
            r == Lookup(frames, G, symbol)
        IN IF binders = {} THEN ~r.ok /\ r.err = "Undefined symbol"
           ELSE /\ r.ok
                /\ r.val = LastDefined(chain[CHOOSE k \in binders : \A m \in binders : k <= m],
                                       symbol)

C4_Witness ==
    /\ Len(frames) >= 2
    /\ frames[2].parent = 1
    /\ Cardinality(DefinesOf(2, "a")) = 2
    /\ DefinesOf(1, "a") # {}
    /\ Lookup(frames, 1, "a").val = Num(0)
    /\ Lookup(frames, 2, "a").val = Num(1)
    /\ ~Lookup(frames, 2, "b").ok

(* C5: the binding expressions of a let are evaluated in the environment    *)
(* outside the let and its body in a new child frame of that environment;   *)
(* installing a binding changes no other frame; so (let ((x 1) (y x)) y) is *)
(* the outer x, and an unbound-name error without one.                      *)
C5_Env ==
    /\ (stack # <<>> /\ Top.k = "LetForm.eval" /\ ctl.mode = "eval") =>
        /\ frames[Top.new_env].parent = Top.env
        /\ ctl.env = IF Top.pc = "binding" THEN Top.env ELSE Top.new_env
    /\ (prog = LetUnbound /\ Finished) => out = <<[t |-> "error", s |-> "Undefined symbol"]>>
    /\ (prog = LetOuter /\ Finished) => out = <<Sym("x"), Num(5), Num(5)>>
    /\ (prog = LetSelf /\ Finished) =>
        out = <<Sym("x"), Num(4), [t |-> "error", s |-> "Undefined symbol"], Num(5)>>

C5_Install ==
    /\ Evaluating("let") =>
        /\ Len(frames') = Len(frames) + 1
        /\ frames'[Len(frames')] = Frame(ctl.env)
        /\ \A j \in DOMAIN frames : frames'[j] = frames[j]
    /\ (Returning("LetForm.eval") /\ Top.pc = "binding") =>
        /\ \A j \in DOMAIN frames : j # Top.new_env => frames'[j] = frames[j]
        /\ frames'[Top.new_env].bindings[Top.name.s] = ctl.val

C5_Let == [](C5_Env) /\ [][C5_Install]_vars

C5_Witness ==
    /\ prog = LetOuter
    /\ Returning("LetForm.eval")
    /\ Top.pc = "binding"
    /\ Top.name = Sym("y")
    /\ ctl.val = Num(5)
    /\ frames[Top.new_env].bindings["x"] = Num(1)

(* C6: a validation error of a special form is raised before any           *)
(* sub-expression of the form is evaluated: by the form's constructor, or   *)
(* at the latest by a LetForm.eval that has not evaluated a binding yet; so *)
(* after (let ((x (define y 1)) (z)) x) has failed, y is still unbound.     *)
ValidationErrors ==
    {"badly formed expression", "too few operands in form", "too many operands in form",
     "non-symbol", "duplicate symbol"}

C6_FailsBeforeEvaluation ==
    /\ (ctl.mode = "raise" /\ ctl.err \in ValidationErrors) =>
        (ctl.at = "init" \/ (stack # <<>> /\ Top.k = "LetForm.eval" /\ Top.name = None))
    /\ (prog = LetShortBinding /\ Finished) =>
        out = << [t |-> "error", s |-> "too few operands in form"],
                 [t |-> "error", s |-> "Undefined symbol"] >>

(* C7: no binding expression and no body expression of a let is evaluated   *)
(* unless the names of its binding list are distinct symbols; so            *)
(* (let ((x 1) (x 2)) x) fails.                                             *)
LetNames(binding) ==
    [j \in DOMAIN binding.xs |-> IF IsPair(binding.xs[j]) THEN binding.xs[j].xs[1] ELSE None]

C7_LetNamesValidated ==
    /\ (stack # <<>> /\ Top.k = "LetForm.eval" /\ ctl.mode = "eval" /\ Top.self.binding.t = "list") =>
        validate_formals(List(LetNames(Top.self.binding))).ok
    /\ (prog = LetDuplicate /\ Finished) => Output(1).t = "error"

(* C8: applying a lambda closure to a number of arguments other than its    *)
(* number of formals raises the arity error and changes no frame, no        *)
(* closure's marker and no activation; applying a mu procedure hands the    *)
(* same arguments to a fresh closure with the mu's formals, changing no     *)
(* frame and no existing closure, and so fails the same way.                *)
ArityError == [t |-> "error", s |-> "Incorrect arguments number"]

C8_Step ==
    /\ (ctl.mode = "apply" /\ ctl.procedure.t = "lambda"
          /\ Len(ctl.args) # Len(lambdas[ctl.procedure.id].formals.xs)) =>
        /\ ctl' = Raise(SchemeError("Incorrect arguments number"), "LambdaProcedure.apply")
        /\ UNCHANGED <<frames, lambdas, stack, defines, out>>
    /\ (ctl.mode = "apply" /\ ctl.procedure.t = "mu"
          /\ Len(ctl.args) # Len(ctl.procedure.formals.xs)) =>
        /\ UNCHANGED <<frames, defines, out>>
        /\ \A id \in DOMAIN lambdas : lambdas'[id] = lambdas[id]
        /\ ctl'.mode = "apply"
        /\ ctl'.procedure.t = "lambda"
        /\ ctl'.procedure.id \notin DOMAIN lambdas
        /\ ctl'.args = ctl.args
        /\ lambdas'[ctl'.procedure.id].formals = ctl.procedure.formals

C8_Results ==
    (prog \in ArityPrograms /\ Finished) =>
        /\ Output(2) = ArityError
        /\ Output(3) = ArityError
        /\ Output(4) = Num(2)
        /\ Output(6) = ArityError
        /\ Len(frames) = 3

C8_Arity == [][C8_Step]_vars /\ [](C8_Results)

C8_Witness ==
    /\ ctl = Raise(SchemeError("Incorrect arguments number"), "LambdaProcedure.apply")
    /\ stack # <<>>
    /\ Top.k = "MuProcedure.apply"
    /\ \E id \in DOMAIN lambdas : lambdas[id].recursive_call

(* C9 and C10 are stated on the families of and, or and cond programs: the  *)
(* form is the object of the claim, and the log of defines shows which of   *)
(* its calls were evaluated, in which order.                                *)
IsInTail == prog[2] = List(<<Sym("f"), F, Num(9)>>)
TheForm == IF IsInTail THEN prog[1].xs[3].xs[4] ELSE prog[2]
Operands == Tail(TheForm.xs)

RECURSIVE CallValues(_)
CallValues(exprs) ==
    IF exprs = <<>> THEN <<>>
    ELSE (IF IsPair(Head(exprs)) THEN <<TestValue(Head(exprs))>> ELSE <<>>)
         \o CallValues(Tail(exprs))

RECURSIVE ValuesOf(_, _)
ValuesOf(log, symbol) ==
    IF log = <<>> THEN <<>>
    ELSE (IF Head(log).symbol = symbol THEN <<Head(log).value>> ELSE <<>>)
         \o ValuesOf(Tail(log), symbol)

(* The calls of f the log shows, after the call that put the form in tail   *)
(* position.                                                                *)
CallsMade == LET bs == ValuesOf(defines, "b") IN IF IsInTail THEN Tail(bs) ELSE bs

FirstIndex(S, n) == IF S = {} THEN n ELSE CHOOSE i \in S : \A j \in S : i <= j

(* C9: and returns the first test value that is the literal false, else the *)
(* last value, else true; or returns the first value that is not the        *)
(* literal false, else false; no test after the deciding one is evaluated;  *)
(* in tail position and out of it alike.                                    *)
C9_AndOr ==
    (prog \in AndOrPrograms /\ Finished) =>
        LET tests == Operands
            n == Len(tests)
            vals == [i \in 1..n |-> TestValue(tests[i])]
            falses == {i \in 1..n : vals[i] = F}
            trues == {i \in 1..n : vals[i] # F}
            isAnd == TheForm.xs[1] = Sym("and")
            stop == IF isAnd THEN FirstIndex(falses, n) ELSE FirstIndex(trues, n)
            value == IF isAnd THEN (IF n = 0 THEN T ELSE vals[stop])
                     ELSE (IF trues = {} THEN F ELSE vals[stop])
        IN /\ out = <<Sym("f"), value>>
           /\ CallsMade = CallValues(SubSeq(tests, 1, stop))

C9_Witness ==
    /\ prog = InTail(FormIn("or", <<F, CallTest(Num(1))>>))
    /\ Returning("complete_apply")
    /\ ctl.val = ThunkProcedure(LambdaRef(1), <<T, Num(1)>>)
    /\ Len(stack) = 2

(* C10: cond selects the first clause whose test is not the literal false,  *)
(* a final else clause being selected when reached; it evaluates no later   *)
(* test and no body of another clause, evaluates the selected body in order *)
(* and returns its last value, or the test's value when the body is empty,  *)
(* or the unspecified value when no clause is selected.                     *)
C10_Cond ==
    (prog \in CondPrograms /\ Finished) =>
        LET cs == Operands
            n == Len(cs)
            isElse(i) == i = n /\ cs[i].xs[1] = Sym("else")
            tv(i) == IF isElse(i) THEN T ELSE TestValue(cs[i].xs[1])
            selected == {i \in 1..n : tv(i) # F}
            sel == FirstIndex(selected, n)
            body == Tail(cs[sel].xs)
            value == IF selected = {} THEN None
                     ELSE IF body = <<>> THEN tv(sel)
                     ELSE TestValue(body[Len(body)])
            tests == [i \in 1..sel |-> cs[i].xs[1]]
        IN /\ out = <<Sym("f"), value>>
           /\ CallsMade = CallValues(tests) \o (IF selected = {} THEN <<>> ELSE CallValues(body))

C10_Witness ==
    /\ prog = InTail(FormIn("cond", <<List(<<CallTest(F)>>),
                                      List(<<Sym("else"), CallTest(Num(2)), CallTest(Num(3))>>)>>))
    /\ Finished
    /\ out = <<Sym("f"), Num(3)>>
    /\ ValuesOf(defines, "b") = <<Num(9), F, Num(2), Num(3)>>

(* C11: a closure's recursive_call marker is true only while an application *)
(* of that closure object is active on the stack; once the read-eval-print  *)
(* loop is back between expressions, after a value or after an error, every *)
(* closure's marker is false.                                               *)
C11_Marker ==
    \A id \in DOMAIN lambdas : lambdas[id].recursive_call => ActiveApplies(id) >= 1

(* C12: an evaluation outside tail position never returns a pending Thunk:  *)
(* neither the top-level scheme_eval of the read-eval-print loop, nor a     *)
(* scheme_eval with is_tail false of a call, a macro call, a special form   *)
(* or a Thunk node, nor complete_apply; so no Thunk is printed, passed as   *)
(* an argument or bound in a frame.                                         *)
C12_NoEscape ==
    /\ (ctl.mode = "ret" /\ stack = <<>>) => ctl.val.t # "thunk"
    /\ (Returning("scheme_eval") /\ Top.pc = "call" /\ ~Top.is_tail) => ctl.val.t # "thunk"
    /\ (Returning("MacroProcedure.apply") /\ Top.pc = "eval") => ctl.val.t # "thunk"
    /\ (Returning("scheme_eval") /\ Top.pc = "args") => ctl.val.t # "thunk"
    /\ \A i \in DOMAIN defines : defines[i].value.t # "thunk"

(* C13: a call in tail position whose operator is a closure with an         *)
(* application active on the stack is never applied by scheme_eval itself:  *)
(* scheme_eval returns a Thunk for it, so no application of a closure       *)
(* starts from a tail call while another application of that closure is     *)
(* active, also after the closure was called outside tail position earlier  *)
(* in the same invocation.                                                  *)
C13_Trampolined ==
    (/\ ctl.mode = "apply"
     /\ ctl.procedure.t = "lambda"
     /\ stack # <<>>
     /\ Top.k = "scheme_eval"
     /\ Top.pc = "call"
     /\ Top.is_tail
     /\ Top.operator = ctl.procedure) => ActiveApplies(ctl.procedure.id) = 0

(***************************************************************************)
(* The reference evaluator: the same interpreter, except that a call in    *)
(* tail position is always applied directly (scheme_apply), so no Thunk is *)
(* ever made.  A behaviour of SpecReference runs the program with the      *)
(* thunk mechanism, records what it printed and the frames it left, and    *)
(* then runs the same program again from a fresh global frame on the       *)
(* reference evaluator.                                                    *)
(***************************************************************************)
Reference == \E i \in DOMAIN out : out[i].t = "restart"

TailCall == EvReady /\ Top.rest = <<>> /\ Top.is_tail

restart ==
    /\ Finished
    /\ ~Reference
    /\ out' = Append(out, [t |-> "restart", frames |-> frames, defines |-> defines])
    /\ frames' = create_global_frame
    /\ lambdas' = <<>>
    /\ stack' = <<>>
    /\ ctl' = Idle
    /\ ip' = 1
    /\ defines' = <<>>
    /\ UNCHANGED prog

reference_apply ==
    /\ Reference
    /\ TailCall
    /\ stack' = SetTop([Top EXCEPT !.pc = "call", !.operator = EvOperator, !.args = EvArgs])
    /\ ctl' = Apply(EvOperator, EvArgs, Top.env)
    /\ UNCHANGED <<frames, lambdas, prog, ip, out, defines>>

NextReference ==
    \/ (~(Reference /\ TailCall) /\ Next)
    \/ restart
    \/ reference_apply

SpecReference == Init /\ [][NextReference]_vars

RestartAt == CHOOSE i \in DOMAIN out : out[i].t = "restart"

(* C14: when both runs of a program have ended, the run with the thunk      *)
(* mechanism has printed the same values and errors, made the same defines  *)
(* and left the same bindings in every frame as the run on the reference    *)
(* evaluator.                                                               *)
C14_Transparent ==
    (Reference /\ Finished) =>
        /\ SubSeq(out, 1, RestartAt - 1) = SubSeq(out, RestartAt + 1, Len(out))
        /\ out[RestartAt].frames = frames
        /\ out[RestartAt].defines = defines

====
